---- MODULE Spec2Model ----
(***************************************************************************)
(* Buffer management core of BusTub: the buffer pool manager instance,     *)
(* the LRU-K replacer it drives, and the page table it consults.           *)
(*                                                                         *)
(* Every public pool operation runs under the pool latch, so each is one   *)
(* atomic action.  The page table is the extendible hash table used        *)
(* sequentially under that latch; here it is the map it implements         *)
(* (key -> frame id, INVALID_FRAME_ID for an absent key).                  *)
(* The legacy LRU replacer and the hash table itself, called by one       *)
(* thread and by several, are modelled on their own.                       *)
(***************************************************************************)
EXTENDS Integers, Sequences, FiniteSets, TLC

\* ---- bounds of the model ------------------------------------------------
PoolSize == 2       \* pool_size: number of frames
ReplacerK == 2      \* replacer_k: the K of LRU-K
MaxPageId == 2      \* NewPage is explored while next_page_id_ <= MaxPageId
MaxPin == 2         \* pin counts explored up to MaxPin
MaxAccess == 3      \* access_times_ explored up to MaxAccess
MaxData == 1        \* page contents are 0 (all zero bytes) .. MaxData
LrukSize == 3       \* num_frames of the stand-alone replacer
MaxK == 3           \* the stand-alone replacer is built with k in 1 .. MaxK
MaxNow == 5         \* accesses recorded in the stand-alone replacer
HtBucketSize == 2   \* bucket_size of the stand-alone hash table
MaxValue == 1       \* its values are 0 .. MaxValue
LruSize == 4        \* num_pages of the stand-alone LRU replacer
NumThreads == 2     \* threads calling the hash table concurrently
ConBucketSize == 1  \* bucket_size of the table they call

\* ---- sentinels ----------------------------------------------------------
INVALID_PAGE_ID == 0 - 1
INVALID_FRAME_ID == 0 - 1

Frames == 0 .. (PoolSize - 1)
LrukIds == 0 .. LrukSize     \* frame ids the stand-alone replacer accepts
ReplFrames == 0 .. PoolSize   \* the replacer accepts frame_id <= replacer_size_
PageIds == INVALID_PAGE_ID .. MaxPageId
Data == 0 .. MaxData
Threads == 1 .. NumThreads
ZeroData == 0
NoData == 0 - 1

VARIABLES
  pages,         \* pages_[frame]: page_id_, pin_count_, is_dirty_, data_
  page_table,    \* page_table_: page id -> frame id, INVALID_FRAME_ID if absent
  free_list,     \* free_list_: sequence of frame ids, front first
  next_page_id,  \* next_page_id_
  replacer,      \* the LRUKReplacer object
  disk,          \* the disk manager's pages: page id -> contents
  committed,     \* observer: contents handed back with UnpinPage(p, true)
  aborted,       \* TRUE: an assert() failed and the process aborted
  lruk,          \* an LRUKReplacer object driven directly by its callers
  now,           \* observer: number of accesses recorded in lruk so far
  hist,          \* observer: frame id -> times of its recorded accesses
  pc,            \* position of the caller in a scripted run of the pool
  ht,            \* an ExtendibleHashTable<int, int> called directly
  kv,            \* observer: the map the calls of ht describe
  lru,           \* an LRUReplacer object driven directly by its callers
  unpinned,      \* observer: the frames lru holds, least recently unpinned first
  dir_latch,     \* latch_ of ht: the thread holding it, NoThread if free
  bucket_latch,  \* latches of ht's buckets: <<bucket, thread, mode>> held
  th             \* the threads calling ht concurrently: position and locals

vars == <<pages, page_table, free_list, next_page_id, replacer, disk,
          committed, aborted, lruk, now, hist, pc, ht, kv, lru, unpinned,
          dir_latch, bucket_latch, th>>

\* the stand-alone LRU replacer and its observer
lruvars == <<lru, unpinned>>

\* the latches of the hash table and the threads that take them
convars == <<dir_latch, bucket_latch, th>>

\* the stand-alone hash table and its observers
htvars == <<ht, kv>>

\* the stand-alone replacer and its observers
replvars == <<lruk, now, hist>>

pool == <<pages, page_table, free_list, next_page_id, replacer, disk>>

\* =========================================================================
\* LRUKReplacer
\* =========================================================================
\* history_list / buffer_list are the two intrusive lists, head
\* (dummy->next_) first; history_frames / buffer_frames are the key sets of
\* the two maps; nodes[f] holds access_times_ and evictable_ of f's ListNode.

NoNode == [access_times |-> 0, evictable |-> FALSE]

ReplacerInit ==
  [ history_list |-> << >>, buffer_list |-> << >>,
    history_frames |-> {}, buffer_frames |-> {},
    nodes |-> [f \in ReplFrames |-> NoNode],
    curr_size |-> 0, history_frame_size |-> 0, buffer_frame_size |-> 0,
    replacer_size |-> PoolSize, k |-> ReplacerK ]

\* node != nullptr
GetNode(r, f) == f \in r.history_frames \/ f \in r.buffer_frames

\* assert(occurrence < 2) inside GetNode
GetNodeAssert(r, f) == ~(f \in r.history_frames /\ f \in r.buffer_frames)

InsertNode(list, f) == <<f>> \o list

RemoveFromSeq(list, f) == SelectSeq(list, LAMBDA x : x # f)

MoveNodeToHead(list, f) == <<f>> \o RemoveFromSeq(list, f)

\* unlink the node from whichever list holds it
EvictNodeFromList(r, f) ==
  [r EXCEPT !.history_list = RemoveFromSeq(@, f),
            !.buffer_list = RemoveFromSeq(@, f)]

\* variant: walk from the head (dummy->next_) towards the tail
GetFirstEvictableNode_FromHead(r, in_history) ==
  LET list == IF in_history THEN r.history_list ELSE r.buffer_list
      idx == {i \in 1 .. Len(list) : r.nodes[list[i]].evictable}
  IN IF idx = {} THEN INVALID_FRAME_ID
     ELSE list[CHOOSE i \in idx : \A j \in idx : i <= j]

\* walk from the tail (dummy->prev_) towards the head; INVALID_FRAME_ID
\* stands for nullptr
GetFirstEvictableNode(r, in_history) ==
  LET list == IF in_history THEN r.history_list ELSE r.buffer_list
      idx == {i \in 1 .. Len(list) : r.nodes[list[i]].evictable}
  IN IF idx = {} THEN INVALID_FRAME_ID
     ELSE list[CHOOSE i \in idx : \A j \in idx : j <= i]

Evict(r) ==
  IF r.curr_size = 0
  THEN [r |-> r, ok |-> FALSE, frame_id |-> INVALID_FRAME_ID, assert_ok |-> TRUE]
  ELSE
    LET h == GetFirstEvictableNode(r, TRUE)
        in_history == h # INVALID_FRAME_ID
        node == IF in_history THEN h ELSE GetFirstEvictableNode(r, FALSE)
        r1 == EvictNodeFromList(r, node)
        r2 == IF in_history
              THEN [r1 EXCEPT !.history_frames = @ \ {node},
                              !.history_frame_size = @ - 1]
              ELSE [r1 EXCEPT !.buffer_frames = @ \ {node},
                              !.buffer_frame_size = @ - 1]
        r3 == [r2 EXCEPT !.nodes[node] = NoNode, !.curr_size = @ - 1]
    IN IF node = INVALID_FRAME_ID
       THEN [r |-> r, ok |-> FALSE, frame_id |-> INVALID_FRAME_ID, assert_ok |-> FALSE]
       ELSE [r |-> r3, ok |-> TRUE, frame_id |-> node, assert_ok |-> TRUE]

\* variant: on its k-th access the frame enters the cache list but is not
\* taken out of the history list and map
RecordAccess_KeepHistory(r, f) ==
  LET known == GetNode(r, f)
      full == r.history_frame_size + r.buffer_frame_size = r.replacer_size
      r1 == IF known THEN r
            ELSE [r EXCEPT !.history_list = InsertNode(@, f),
                           !.history_frames = @ \cup {f},
                           !.history_frame_size = @ + 1,
                           !.nodes[f] = NoNode]
      r2 == [r1 EXCEPT !.nodes[f].access_times = @ + 1]
      n == r2.nodes[f].access_times
  IN IF ~known /\ full THEN r
     ELSE IF n = r.k
     THEN [r2 EXCEPT
             !.buffer_list = InsertNode(RemoveFromSeq(@, f), f),
             !.buffer_frames = @ \cup {f},
             !.buffer_frame_size = @ + 1]
     ELSE IF n < r.k
     THEN IF n # 1
          THEN [r2 EXCEPT !.history_list = MoveNodeToHead(@, f)]
          ELSE r2
     ELSE [r2 EXCEPT !.buffer_list = MoveNodeToHead(@, f)]

\* variant: a frame already in the cache list keeps its position
RecordAccess_NoMove(r, f) ==
  LET known == GetNode(r, f)
      full == r.history_frame_size + r.buffer_frame_size = r.replacer_size
      r1 == IF known THEN r
            ELSE [r EXCEPT !.history_list = InsertNode(@, f),
                           !.history_frames = @ \cup {f},
                           !.history_frame_size = @ + 1,
                           !.nodes[f] = NoNode]
      r2 == [r1 EXCEPT !.nodes[f].access_times = @ + 1]
      n == r2.nodes[f].access_times
  IN IF ~known /\ full THEN r
     ELSE IF n = r.k
     THEN [EvictNodeFromList(r2, f) EXCEPT
             !.history_frames = @ \ {f},
             !.history_frame_size = @ - 1,
             !.buffer_list = InsertNode(RemoveFromSeq(@, f), f),
             !.buffer_frames = @ \cup {f},
             !.buffer_frame_size = @ + 1]
     ELSE IF n < r.k
     THEN IF n # 1
          THEN [r2 EXCEPT !.history_list = MoveNodeToHead(@, f)]
          ELSE r2
     ELSE r2

RecordAccess(r, f) ==
  LET known == GetNode(r, f)
      full == r.history_frame_size + r.buffer_frame_size = r.replacer_size
      r1 == IF known THEN r
            ELSE [r EXCEPT !.history_list = InsertNode(@, f),
                           !.history_frames = @ \cup {f},
                           !.history_frame_size = @ + 1,
                           !.nodes[f] = NoNode]
      r2 == [r1 EXCEPT !.nodes[f].access_times = @ + 1]
      n == r2.nodes[f].access_times
  IN IF ~known /\ full THEN r
     ELSE IF n = r.k
     THEN [EvictNodeFromList(r2, f) EXCEPT
             !.history_frames = @ \ {f},
             !.history_frame_size = @ - 1,
             !.buffer_list = InsertNode(RemoveFromSeq(@, f), f),
             !.buffer_frames = @ \cup {f},
             !.buffer_frame_size = @ + 1]
     ELSE IF n < r.k
     THEN IF n # 1
          THEN [r2 EXCEPT !.history_list = MoveNodeToHead(@, f)]
          ELSE r2
     ELSE [r2 EXCEPT !.buffer_list = MoveNodeToHead(@, f)]

SetEvictable(r, f, set_evictable) ==
  IF ~GetNode(r, f) THEN r
  ELSE IF r.nodes[f].evictable = set_evictable THEN r
  ELSE [r EXCEPT !.nodes[f].evictable = set_evictable,
                 !.curr_size = IF set_evictable THEN @ + 1 ELSE @ - 1]

\* variant: the node leaves its list but stays in the map
Remove_KeepMap(r, f) ==
  IF ~GetNode(r, f) \/ ~r.nodes[f].evictable THEN r
  ELSE [EvictNodeFromList(r, f) EXCEPT !.curr_size = @ - 1]

\* variant: curr_size_ is left as it was
Remove_KeepSize(r, f) ==
  IF ~GetNode(r, f) \/ ~r.nodes[f].evictable THEN r
  ELSE
    LET r1 == EvictNodeFromList(r, f)
        in_history == f \in r.history_frames
        r2 == IF in_history
              THEN [r1 EXCEPT !.history_frames = @ \ {f},
                              !.history_frame_size = @ - 1]
              ELSE [r1 EXCEPT !.buffer_frames = @ \ {f},
                              !.buffer_frame_size = @ - 1]
    IN [r2 EXCEPT !.nodes[f] = NoNode]

Remove(r, f) ==
  IF ~GetNode(r, f) \/ ~r.nodes[f].evictable THEN r
  ELSE
    LET r1 == EvictNodeFromList(r, f)
        in_history == f \in r.history_frames
        r2 == IF in_history
              THEN [r1 EXCEPT !.history_frames = @ \ {f},
                              !.history_frame_size = @ - 1]
              ELSE [r1 EXCEPT !.buffer_frames = @ \ {f},
                              !.buffer_frame_size = @ - 1]
    IN [r2 EXCEPT !.nodes[f] = NoNode, !.curr_size = @ - 1]

Size(r) == r.curr_size

\* LRUKReplacer(num_frames, k)
NewReplacer(num_frames, k) ==
  [ history_list |-> << >>, buffer_list |-> << >>,
    history_frames |-> {}, buffer_frames |-> {},
    nodes |-> [f \in 0 .. num_frames |-> NoNode],
    curr_size |-> 0, history_frame_size |-> 0, buffer_frame_size |-> 0,
    replacer_size |-> num_frames, k |-> k ]

\* =========================================================================
\* ExtendibleHashTable<int, int>
\* =========================================================================
\* the keys used: 0, 4, 8 agree in their two low bits, 1 and 5 as well, and
\* 1, 3, 5 in the lowest, so buckets split up to depth 3 and at depths
\* below the global depth
HtKeys == {0, 1, 3, 4, 5, 8}

HtValues == 0 .. MaxValue

\* std::hash<int> is the identity
Hash(key) == key

\* ExtendibleHashTable(bucket_size): one bucket of depth 0.  dir[i + 1] is
\* dir_[i]; a bucket is named by its position in buckets, which stands for
\* the shared_ptr
NewHashTable(bucket_size) ==
  [ global_depth |-> 0, bucket_size |-> bucket_size, num_buckets |-> 1,
    dir |-> <<1>>,
    buckets |-> << [depth |-> 0, list |-> << >>] >> ]

\* hash & ((1 << global_depth_) - 1)
IndexOf(h, key) == Hash(key) % (2 ^ h.global_depth)

\* bucket_no ^ (1 << (local_depth - 1))
PairIndex(bucket_no, local_depth) ==
  LET bit == 2 ^ (local_depth - 1)
  IN IF (bucket_no \div bit) % 2 = 1 THEN bucket_no - bit ELSE bucket_no + bit

\* position of the first entry with this key, 0 when there is none
BucketPos(list, key) ==
  LET idx == {i \in 1 .. Len(list) : list[i][1] = key}
  IN IF idx = {} THEN 0 ELSE CHOOSE i \in idx : \A j \in idx : i <= j

IsFull(b, size) == Len(b.list) = size

IsOverflow(b, size) == Len(b.list) > size

BucketFind(b, key) ==
  LET i == BucketPos(b.list, key)
  IN IF i = 0 THEN [ok |-> FALSE, value |-> 0 - 1]
     ELSE [ok |-> TRUE, value |-> b.list[i][2]]

BucketRemove(b, key) ==
  LET i == BucketPos(b.list, key)
  IN IF i = 0 THEN [b |-> b, ok |-> FALSE]
     ELSE [b |-> [b EXCEPT !.list = SubSeq(@, 1, i - 1) \o
                                    SubSeq(@, i + 1, Len(@))],
           ok |-> TRUE]

\* variant: a full bucket refuses every Insert, whatever the key
BucketInsert_FullFirst(b, key, value, size) ==
  LET i == BucketPos(b.list, key)
  IN IF IsOverflow(b, size) \/ IsFull(b, size) THEN [b |-> b, ok |-> FALSE]
     ELSE IF i # 0
     THEN [b |-> [b EXCEPT !.list[i] = <<key, value>>], ok |-> TRUE]
     ELSE [b |-> [b EXCEPT !.list = Append(@, <<key, value>>)], ok |-> TRUE]

BucketInsert(b, key, value, size) ==
  LET i == BucketPos(b.list, key)
  IN IF IsOverflow(b, size) THEN [b |-> b, ok |-> FALSE]
     ELSE IF i # 0
     THEN [b |-> [b EXCEPT !.list[i] = <<key, value>>], ok |-> TRUE]
     ELSE IF IsFull(b, size) THEN [b |-> b, ok |-> FALSE]
     ELSE [b |-> [b EXCEPT !.list = Append(@, <<key, value>>)], ok |-> TRUE]

GetNumBuckets(h) == h.num_buckets

HtFind(h, key) == BucketFind(h.buckets[h.dir[IndexOf(h, key) + 1]], key)

HtRemove(h, key) ==
  LET id == h.dir[IndexOf(h, key) + 1]
      r == BucketRemove(h.buckets[id], key)
  IN [h |-> [h EXCEPT !.buckets[id] = r.b], ret |-> r.ok]

\* the items of a split bucket go back in, one by one; an item its bucket
\* refuses is only logged
RECURSIVE Redistribute(_, _, _)
Redistribute(h, items, i) ==
  IF i > Len(items) THEN h
  ELSE LET id == h.dir[IndexOf(h, items[i][1]) + 1]
           r == BucketInsert(h.buckets[id], items[i][1], items[i][2],
                             h.bucket_size)
       IN Redistribute([h EXCEPT !.buckets[id] = r.b], items, i + 1)

\* variant: only dir_[pair_index] is pointed at the new bucket
SplitBucket_OneSlot(h, bucket_no) ==
  LET id == h.dir[bucket_no + 1]
      local_depth == h.buckets[id].depth + 1
      grow == local_depth > h.global_depth
      h1 == [h EXCEPT !.buckets[id].depth = local_depth,
                      !.dir = IF grow THEN @ \o @ ELSE @,
                      !.global_depth = IF grow THEN @ + 1 ELSE @]
      pair_index == PairIndex(bucket_no, local_depth)
      new == Len(h1.buckets) + 1
      items == h1.buckets[id].list
      h2 == [h1 EXCEPT
               !.buckets = Append([@ EXCEPT ![id].list = << >>],
                                  [depth |-> local_depth, list |-> << >>]),
               !.dir[pair_index + 1] = new]
  IN Redistribute(h2, items, 1)

\* variant: the directory doubles on every split
SplitBucket_AlwaysGrow(h, bucket_no) ==
  LET id == h.dir[bucket_no + 1]
      local_depth == h.buckets[id].depth + 1
      h1 == [h EXCEPT !.buckets[id].depth = local_depth,
                      !.dir = @ \o @,
                      !.global_depth = @ + 1]
      pair_index == PairIndex(bucket_no, local_depth)
      new == Len(h1.buckets) + 1
      index_diff == 2 ^ local_depth
      dir_size == 2 ^ h1.global_depth
      items == h1.buckets[id].list
      h2 == [h1 EXCEPT
               !.buckets = Append([@ EXCEPT ![id].list = << >>],
                                  [depth |-> local_depth, list |-> << >>]),
               !.dir = [j \in 1 .. Len(@) |->
                          IF j - 1 < dir_size
                             /\ (j - 1) % index_diff = pair_index % index_diff
                          THEN new ELSE @[j]]]
  IN Redistribute(h2, items, 1)

\* one failed pass of the loop of Insert: split the bucket at bucket_no
SplitBucket(h, bucket_no) ==
  LET id == h.dir[bucket_no + 1]
      local_depth == h.buckets[id].depth + 1
      grow == local_depth > h.global_depth
      h1 == [h EXCEPT !.buckets[id].depth = local_depth,
                      !.dir = IF grow THEN @ \o @ ELSE @,
                      !.global_depth = IF grow THEN @ + 1 ELSE @]
      pair_index == PairIndex(bucket_no, local_depth)
      new == Len(h1.buckets) + 1
      index_diff == 2 ^ local_depth
      dir_size == 2 ^ h1.global_depth
      items == h1.buckets[id].list
      h2 == [h1 EXCEPT
               !.buckets = Append([@ EXCEPT ![id].list = << >>],
                                  [depth |-> local_depth, list |-> << >>]),
               !.dir = [j \in 1 .. Len(@) |->
                          IF j - 1 < dir_size
                             /\ (j - 1) % index_diff = pair_index % index_diff
                          THEN new ELSE @[j]]]
  IN Redistribute(h2, items, 1)

\* the first half of a failed pass, done under the bucket's write latch:
\* the depth goes up, the directory doubles if it must, dir_[pair_index]
\* gets a new bucket, and the items are copied out and cleared
SplitClear(h, bucket_no) ==
  LET id == h.dir[bucket_no + 1]
      local_depth == h.buckets[id].depth + 1
      grow == local_depth > h.global_depth
      h1 == [h EXCEPT !.buckets[id].depth = local_depth,
                      !.dir = IF grow THEN @ \o @ ELSE @,
                      !.global_depth = IF grow THEN @ + 1 ELSE @]
      pair_index == PairIndex(bucket_no, local_depth)
      new == Len(h1.buckets) + 1
  IN [h |-> [h1 EXCEPT
               !.buckets = Append([@ EXCEPT ![id].list = << >>],
                                  [depth |-> local_depth, list |-> << >>]),
               !.dir[pair_index + 1] = new],
      items |-> h1.buckets[id].list,
      pair_index |-> pair_index,
      local_depth |-> local_depth]

\* the two loops that point every slot congruent to pair_index at
\* dir_[pair_index]
SplitRepoint(h, pair_index, local_depth) ==
  LET index_diff == 2 ^ local_depth
      dir_size == 2 ^ h.global_depth
  IN [h EXCEPT !.dir = [j \in 1 .. Len(@) |->
                          IF j - 1 < dir_size
                             /\ (j - 1) % index_diff = pair_index % index_diff
                          THEN @[pair_index + 1] ELSE @[j]]]

RECURSIVE HtInsert(_, _, _)
HtInsert(h, key, value) ==
  LET bucket_no == IndexOf(h, key)
      id == h.dir[bucket_no + 1]
      r == BucketInsert(h.buckets[id], key, value, h.bucket_size)
  IN IF r.ok THEN [h EXCEPT !.buckets[id] = r.b]
     ELSE HtInsert(SplitBucket(h, bucket_no), key, value)

\* =========================================================================
\* Disk manager and page table, as the pool consumes them
\* =========================================================================
WritePage(st, page_id, data) ==
  [st EXCEPT !.disk[page_id] = data,
             !.written = @ \cup {<<page_id, data>>}]

ReadPage(st, page_id) == st.disk[page_id]

PageTableFind(pt, key) == pt[key] # INVALID_FRAME_ID

PageTableInsert(pt, key, value) == [pt EXCEPT ![key] = value]

PageTableRemove(pt, key) == [pt EXCEPT ![key] = INVALID_FRAME_ID]

\* =========================================================================
\* BufferPoolManagerInstance
\* =========================================================================
EmptyPage ==
  [page_id |-> INVALID_PAGE_ID, pin_count |-> 0, is_dirty |-> FALSE,
   data |-> ZeroData]

\* The object state a handler works on; assert_ok turns FALSE when an
\* assert() on the handler's path does not hold.
State ==
  [ pages |-> pages, page_table |-> page_table, free_list |-> free_list,
    next_page_id |-> next_page_id, replacer |-> replacer, disk |-> disk,
    written |-> {}, assert_ok |-> TRUE ]

Check(st, cond) == [st EXCEPT !.assert_ok = @ /\ cond]

\* GetVictimPage that asks the replacer first and the free list second
GetVictimPage_EvictFirst(st) ==
  LET e == Evict(st.replacer)
  IN IF e.ok
     THEN [st |-> [st EXCEPT !.replacer = e.r], frame_id |-> e.frame_id]
     ELSE IF st.free_list # << >>
     THEN LET f == Head(st.free_list)
              s1 == [st EXCEPT !.free_list = Tail(@)]
          IN [st |-> Check(s1, s1.pages[f].page_id = INVALID_PAGE_ID),
              frame_id |-> f]
     ELSE [st |-> st, frame_id |-> INVALID_FRAME_ID]

GetVictimPage(st) ==
  IF st.free_list # << >>
  THEN LET f == Head(st.free_list)
           s1 == [st EXCEPT !.free_list = Tail(@)]
       IN [st |-> Check(s1, s1.pages[f].page_id = INVALID_PAGE_ID),
           frame_id |-> f]
  ELSE LET e == Evict(st.replacer)
       IN [st |-> Check([st EXCEPT !.replacer = e.r], e.assert_ok),
           frame_id |-> e.frame_id]

\* ResetPage that looks the page up in the page table without removing it
ResetPage_KeepEntry(st, f) ==
  LET page == st.pages[f]
  IN IF page.page_id = INVALID_PAGE_ID
     THEN [st |-> st, ok |-> TRUE]
     ELSE IF PageTableFind(st.page_table, page.page_id)
     THEN LET s2 == IF page.is_dirty
                    THEN WritePage(st, page.page_id, page.data)
                    ELSE st
          IN [st |-> [s2 EXCEPT !.pages[f] = EmptyPage], ok |-> TRUE]
     ELSE [st |-> st, ok |-> FALSE]

ResetPage(st, f) ==
  LET page == st.pages[f]
  IN IF page.page_id = INVALID_PAGE_ID
     THEN [st |-> st, ok |-> TRUE]
     ELSE IF PageTableFind(st.page_table, page.page_id)
     THEN LET s1 == [st EXCEPT !.page_table = PageTableRemove(@, page.page_id)]
              s2 == IF page.is_dirty
                    THEN WritePage(s1, page.page_id, page.data)
                    ELSE s1
          IN [st |-> [s2 EXCEPT !.pages[f] = EmptyPage], ok |-> TRUE]
     ELSE [st |-> st, ok |-> FALSE]

InitPage(st, f, page_id) ==
  LET page == st.pages[f]
      s1 == Check(st, page.page_id = INVALID_PAGE_ID /\ ~page.is_dirty
                      /\ page.pin_count = 0)
  IN [s1 EXCEPT !.pages[f].page_id = page_id,
                !.pages[f].pin_count = 1,
                !.page_table = PageTableInsert(@, page_id, f)]

UpdateFrameInfo(st, f, pin_count) ==
  LET s1 == Check(st, GetNodeAssert(st.replacer, f))
      r1 == RecordAccess(s1.replacer, f)
      r2 == IF pin_count = 1 THEN SetEvictable(r1, f, FALSE) ELSE r1
  IN [s1 EXCEPT !.replacer = r2]

UnpinFrame(st, f) ==
  LET s1 == Check(st, st.pages[f].pin_count > 0)
      s2 == [s1 EXCEPT !.pages[f].pin_count = @ - 1]
  IN IF s2.pages[f].pin_count = 0
     THEN [s2 EXCEPT !.replacer = SetEvictable(@, f, TRUE)]
     ELSE s2

\* Each *Imp below returns the state after the call, the value returned
\* to the caller (ret) and, for NewPgImp, the page id stored through the
\* out-parameter.
\* NewPgImp that calls AllocatePage before it knows it has a frame
NewPgImp_AllocFirst(st) ==
  LET pid == st.next_page_id
      v == GetVictimPage([st EXCEPT !.next_page_id = @ + 1])
      f == v.frame_id
      s2 == ResetPage(v.st, f).st
      s3 == InitPage(s2, f, pid)
      s4 == UpdateFrameInfo(s3, f, s3.pages[f].pin_count)
  IN IF f = INVALID_FRAME_ID
     THEN [st |-> v.st, ret |-> INVALID_FRAME_ID, page_id |-> INVALID_PAGE_ID]
     ELSE [st |-> s4, ret |-> f, page_id |-> pid]

NewPgImp(st) ==
  LET v == GetVictimPage(st)
      f == v.frame_id
      pid == v.st.next_page_id
      s1 == [v.st EXCEPT !.next_page_id = @ + 1]
      s2 == ResetPage(s1, f).st
      s3 == InitPage(s2, f, pid)
      s4 == UpdateFrameInfo(s3, f, s3.pages[f].pin_count)
  IN IF f = INVALID_FRAME_ID
     THEN [st |-> v.st, ret |-> INVALID_FRAME_ID, page_id |-> INVALID_PAGE_ID]
     ELSE [st |-> s4, ret |-> f, page_id |-> pid]

FetchPgImp(st, page_id) ==
  IF PageTableFind(st.page_table, page_id)
  THEN LET f == st.page_table[page_id]
           s1 == [st EXCEPT !.pages[f].pin_count = @ + 1]
           s2 == UpdateFrameInfo(s1, f, s1.pages[f].pin_count)
       IN [st |-> s2, ret |-> f, page_id |-> page_id]
  ELSE LET v == GetVictimPage(st)
           f == v.frame_id
           s2 == ResetPage(v.st, f).st
           s3 == InitPage(s2, f, page_id)
           s4 == [s3 EXCEPT !.pages[f].data = ReadPage(s3, page_id)]
           s5 == UpdateFrameInfo(s4, f, s4.pages[f].pin_count)
       IN IF f = INVALID_FRAME_ID
          THEN [st |-> v.st, ret |-> INVALID_FRAME_ID, page_id |-> page_id]
          ELSE [st |-> s5, ret |-> f, page_id |-> page_id]

\* UnpinPgImp that stores is_dirty instead of or-ing it in
UnpinPgImp_AssignDirty(st, page_id, is_dirty) ==
  IF ~PageTableFind(st.page_table, page_id)
  THEN [st |-> st, ret |-> FALSE]
  ELSE LET f == st.page_table[page_id]
           s1 == Check(st, st.pages[f].page_id = page_id)
           s2 == UnpinFrame(s1, f)
           s3 == [s2 EXCEPT !.pages[f].is_dirty = is_dirty]
       IN IF s1.pages[f].pin_count = 0
          THEN [st |-> s1, ret |-> FALSE]
          ELSE [st |-> s3, ret |-> TRUE]

UnpinPgImp(st, page_id, is_dirty) ==
  IF ~PageTableFind(st.page_table, page_id)
  THEN [st |-> st, ret |-> FALSE]
  ELSE LET f == st.page_table[page_id]
           s1 == Check(st, st.pages[f].page_id = page_id)
           s2 == UnpinFrame(s1, f)
           s3 == IF is_dirty THEN [s2 EXCEPT !.pages[f].is_dirty = TRUE] ELSE s2
       IN IF s1.pages[f].pin_count = 0
          THEN [st |-> s1, ret |-> FALSE]
          ELSE [st |-> s3, ret |-> TRUE]

\* FlushPgImp that writes the page only when its dirty flag is set
FlushPgImp_OnlyDirty(st, page_id) ==
  IF page_id = INVALID_PAGE_ID
  THEN [st |-> st, ret |-> FALSE]
  ELSE IF ~PageTableFind(st.page_table, page_id)
  THEN [st |-> st, ret |-> FALSE]
  ELSE LET f == st.page_table[page_id]
           s1 == Check(st, st.pages[f].page_id = page_id)
           s2 == IF s1.pages[f].is_dirty
                 THEN WritePage(s1, page_id, s1.pages[f].data)
                 ELSE s1
       IN [st |-> [s2 EXCEPT !.pages[f].is_dirty = FALSE], ret |-> TRUE]

FlushPgImp(st, page_id) ==
  IF page_id = INVALID_PAGE_ID
  THEN [st |-> st, ret |-> FALSE]
  ELSE IF ~PageTableFind(st.page_table, page_id)
  THEN [st |-> st, ret |-> FALSE]
  ELSE LET f == st.page_table[page_id]
           s1 == Check(st, st.pages[f].page_id = page_id)
           s2 == WritePage(s1, page_id, s1.pages[f].data)
       IN [st |-> [s2 EXCEPT !.pages[f].is_dirty = FALSE], ret |-> TRUE]

\* the loop over frame_id = 0 .. pool_size_ - 1, from frame_id on
RECURSIVE FlushAllFrom(_, _)
FlushAllFrom(st, f) ==
  IF f >= PoolSize THEN st
  ELSE IF st.pages[f].page_id # INVALID_PAGE_ID
  THEN FlushAllFrom(
         [WritePage(st, st.pages[f].page_id, st.pages[f].data)
            EXCEPT !.pages[f].is_dirty = FALSE], f + 1)
  ELSE FlushAllFrom(st, f + 1)

FlushAllPgsImp(st) == [st |-> FlushAllFrom(st, 0), ret |-> TRUE]

\* DeallocatePage is a no-op of the disk manager's allocator
DeletePgImp(st, page_id) ==
  IF ~PageTableFind(st.page_table, page_id)
  THEN [st |-> st, ret |-> TRUE]
  ELSE LET f == st.page_table[page_id]
           rp == ResetPage(st, f)
           s1 == [rp.st EXCEPT !.replacer = Remove(@, f),
                               !.free_list = Append(@, f)]
       IN IF st.pages[f].pin_count > 0
          THEN [st |-> st, ret |-> FALSE]
          ELSE IF rp.ok
          THEN [st |-> s1, ret |-> TRUE]
          ELSE [st |-> rp.st, ret |-> FALSE]

\* =========================================================================
\* LRUReplacer (the legacy replacer): list is the node list from
\* dummy_node_->next_ (head) to dummy_node_->prev_ (tail), frames the keys
\* of frames_
\* =========================================================================
NoFrame == 0 - 1

\* LRUReplacer(num_pages)
LRUReplacer(num_pages) ==
  [page_size |-> num_pages, cur_size |-> 0, list |-> << >>, frames |-> {}]

\* Victim(frame_id*): frame_id is NoFrame when the output is not written
LRUVictim(r) ==
  IF r.cur_size = 0
  THEN [r |-> r, ret |-> FALSE, frame_id |-> NoFrame]
  ELSE LET least_used == r.list[Len(r.list)]
       IN [r |-> [r EXCEPT !.list = SubSeq(@, 1, Len(@) - 1),
                           !.frames = @ \ {least_used},
                           !.cur_size = @ - 1],
           ret |-> FALSE,
           frame_id |-> least_used]

\* Pin(frame_id)
LRUPin(r, frame_id) ==
  IF frame_id \notin r.frames
  THEN r
  ELSE [r EXCEPT !.list = SelectSeq(@, LAMBDA f : f # frame_id),
                 !.frames = @ \ {frame_id},
                 !.cur_size = @ - 1]

\* Unpin(frame_id)
LRUUnpin(r, frame_id) ==
  IF frame_id \in r.frames
  THEN r
  ELSE IF r.cur_size = r.page_size
       THEN r
       ELSE [r EXCEPT !.list = <<frame_id>> \o @,
                      !.frames = @ \cup {frame_id},
                      !.cur_size = @ + 1]

\* Size()
LRUSize(r) == r.cur_size

\* =========================================================================
\* The state machine
\* =========================================================================
\* BufferPoolManagerInstance(pool_size, disk_manager, replacer_k)
PoolInit ==
  /\ pages = [f \in Frames |-> EmptyPage]
  /\ page_table = [p \in PageIds |-> INVALID_FRAME_ID]
  /\ free_list = [i \in 1 .. PoolSize |-> i - 1]
  /\ next_page_id = 0
  /\ replacer = ReplacerInit
  /\ disk = [p \in PageIds |-> ZeroData]
  /\ committed = [p \in PageIds |-> NoData]
  /\ aborted = FALSE

\* the stand-alone replacer LRUKReplacer(LrukSize, k), nothing recorded yet
LrukNew(k) ==
  /\ lruk = NewReplacer(LrukSize, k)
  /\ now = 0
  /\ hist = [f \in LrukIds |-> << >>]

\* the stand-alone hash table, nothing inserted yet
NoValue == 0 - 1

HtNew ==
  /\ ht = NewHashTable(HtBucketSize)
  /\ kv = [k \in HtKeys |-> NoValue]

\* the stand-alone LRU replacer, nothing unpinned yet
LruNew ==
  /\ lru = LRUReplacer(LruSize)
  /\ unpinned = << >>

\* no thread calls the hash table concurrently
NoThread == 0

NoBucket == 0

\* a thread outside every call.  bucket is the call's shared_ptr, items
\* its itemsToInsert still to go back in, pair_index and local_depth the
\* locals of the split under way; before, undone and raced observe the
\* call: the key was in the table when the call began, a Remove by another
\* thread erased it since, a split emptied the key's bucket since
ThIdle ==
  [pc |-> "idle", op |-> "none", key |-> 0, value |-> 0, bucket |-> NoBucket,
   items |-> << >>, pair_index |-> 0, local_depth |-> 0, ret |-> FALSE,
   before |-> FALSE, undone |-> FALSE, raced |-> FALSE]

ConcOff ==
  /\ dir_latch = NoThread
  /\ bucket_latch = {}
  /\ th = [t \in Threads |-> ThIdle]

\* no scripted run
ScenOff == [phase |-> "off", rest |-> << >>]

Init ==
  /\ PoolInit
  /\ LrukNew(ReplacerK)
  /\ pc = ScenOff
  /\ HtNew
  /\ LruNew
  /\ ConcOff

\* the explored part of the unbounded counters and of the free list
MaxFreeList == PoolSize + 1

InBounds(st) ==
  /\ st.next_page_id <= MaxPageId + 1
  /\ Len(st.free_list) <= MaxFreeList
  /\ \A f \in Frames :
       /\ st.pages[f].pin_count <= MaxPin
       /\ st.replacer.nodes[f].access_times <= MaxAccess

\* A call either completes (its effects become the state) or dies on the
\* first assert() that does not hold.
Complete(res) ==
  /\ ~aborted
  /\ InBounds(res.st)
  /\ IF res.st.assert_ok
     THEN /\ pages' = res.st.pages
          /\ page_table' = res.st.page_table
          /\ free_list' = res.st.free_list
          /\ next_page_id' = res.st.next_page_id
          /\ replacer' = res.st.replacer
          /\ disk' = res.st.disk
          /\ aborted' = FALSE
     ELSE /\ aborted' = TRUE
          /\ UNCHANGED pool
  /\ UNCHANGED <<replvars, pc, htvars, lruvars, convars>>

NewPage == Complete(NewPgImp(State))

FetchPage(p) == Complete(FetchPgImp(State, p))

UnpinPage(p, is_dirty) == Complete(UnpinPgImp(State, p, is_dirty))

FlushPage(p) == Complete(FlushPgImp(State, p))

FlushAllPages == Complete(FlushAllPgsImp(State))

DeletePage(p) == Complete(DeletePgImp(State, p))

\* A caller that holds a pin on frame f overwrites the frame's contents.
WriteData(f, d) ==
  /\ ~aborted
  /\ pages[f].pin_count > 0
  /\ pages[f].data # d
  /\ pages' = [pages EXCEPT ![f].data = d]
  /\ UNCHANGED <<page_table, free_list, next_page_id, replacer, disk, aborted>>
  /\ UNCHANGED <<replvars, pc, htvars, lruvars, convars>>

\* page ids NewPage has returned so far
Allocated == 0 .. (next_page_id - 1)

\* ---- Spec: the six pool operations with every page-id argument ---------
\* (the sentinel and ids NewPage never returned included); callers do not
\* touch page contents.
Next ==
  \/ NewPage /\ UNCHANGED committed
  \/ \E p \in PageIds : FetchPage(p) /\ UNCHANGED committed
  \/ \E p \in PageIds : \E d \in BOOLEAN :
       UnpinPage(p, d) /\ UNCHANGED committed
  \/ \E p \in PageIds : FlushPage(p) /\ UNCHANGED committed
  \/ FlushAllPages /\ UNCHANGED committed
  \/ \E p \in PageIds : DeletePage(p) /\ UNCHANGED committed

Spec == Init /\ [][Next]_vars

\* ---- SpecAlloc: page-id arguments are ids NewPage returned; callers -----
\* write the pages they have pinned, and committed observes what they hand
\* back: UnpinPage(p, true) of a page NewPage created commits the frame's
\* contents as p's contents, a write of p's frame or a DeletePage(p) ends
\* the commitment.
NewPageA == NewPage /\ UNCHANGED committed

FetchPageA(p) == FetchPage(p) /\ UNCHANGED committed

UnpinPageA(p, is_dirty) ==
  /\ UnpinPage(p, is_dirty)
  /\ committed' =
       IF /\ is_dirty /\ p \in Allocated
          /\ UnpinPgImp(State, p, is_dirty).ret /\ ~aborted'
       THEN [committed EXCEPT ![p] = pages[page_table[p]].data]
       ELSE committed

FlushPageA(p) == FlushPage(p) /\ UNCHANGED committed

FlushAllPagesA == FlushAllPages /\ UNCHANGED committed

DeletePageA(p) ==
  /\ DeletePage(p)
  /\ committed' = IF DeletePgImp(State, p).ret /\ ~aborted'
                  THEN [committed EXCEPT ![p] = NoData]
                  ELSE committed

WriteDataA(f, d) ==
  /\ WriteData(f, d)
  /\ committed' = [p \in PageIds |->
                     IF p = pages[f].page_id \/ page_table[p] = f
                     THEN NoData ELSE committed[p]]

NextAlloc ==
  \/ NewPageA
  \/ \E p \in Allocated : FetchPageA(p)
  \/ \E p \in Allocated : \E d \in BOOLEAN : UnpinPageA(p, d)
  \/ \E p \in Allocated : FlushPageA(p)
  \/ FlushAllPagesA
  \/ \E p \in Allocated : DeletePageA(p)
  \/ \E f \in Frames : \E d \in Data : WriteDataA(f, d)

SpecAlloc == Init /\ [][NextAlloc]_vars

\* ---- SpecWrite: callers write page WrittenPage and pass the sentinel ----
\* or WrittenPage, whether or not NewPage has returned it yet; NewPage
\* hands out ids as in Spec.
WrittenPage == 0

WriteIds == INVALID_PAGE_ID .. WrittenPage

WriteDataW(f, d) == pages[f].page_id = WrittenPage /\ WriteDataA(f, d)

NextWrite ==
  \/ NewPageA
  \/ \E p \in WriteIds : FetchPageA(p)
  \/ \E p \in WriteIds : \E d \in BOOLEAN : UnpinPageA(p, d)
  \/ \E p \in WriteIds : FlushPageA(p)
  \/ FlushAllPagesA
  \/ \E p \in WriteIds : DeletePageA(p)
  \/ \E f \in Frames : \E d \in Data : WriteDataW(f, d)

SpecWrite == Init /\ [][NextWrite]_vars

\* ---- SpecLruk: an LRUKReplacer(LrukSize, k), k in 1 .. MaxK, called ------
\* directly; now and hist observe the accesses it records.  Evict and
\* Remove delete the frame's node and with it the frame's history.
LrukInit ==
  /\ PoolInit
  /\ \E k \in 1 .. MaxK : LrukNew(k)
  /\ pc = ScenOff
  /\ HtNew
  /\ LruNew
  /\ ConcOff

LrukRecordAccess(f) ==
  /\ ~aborted
  /\ now < MaxNow
  /\ lruk' = RecordAccess(lruk, f)
  /\ now' = now + 1
  /\ hist' = IF GetNode(lruk', f)
             THEN [hist EXCEPT ![f] = Append(@, now + 1)]
             ELSE hist
  /\ UNCHANGED <<pool, pc, htvars, lruvars, convars, committed, aborted>>

LrukSetEvictable(f, set_evictable) ==
  /\ ~aborted
  /\ lruk' = SetEvictable(lruk, f, set_evictable)
  /\ UNCHANGED <<pool, pc, htvars, lruvars, convars, committed, aborted, now, hist>>

LrukEvict ==
  /\ ~aborted
  /\ LET e == Evict(lruk)
     IN IF e.assert_ok
        THEN /\ lruk' = e.r
             /\ hist' = IF e.ok THEN [hist EXCEPT ![e.frame_id] = << >>]
                        ELSE hist
             /\ aborted' = FALSE
        ELSE /\ aborted' = TRUE
             /\ UNCHANGED <<lruk, hist>>
  /\ UNCHANGED <<pool, pc, htvars, lruvars, convars, committed, now>>

LrukRemove(f) ==
  /\ ~aborted
  /\ lruk' = Remove(lruk, f)
  /\ hist' = IF GetNode(lruk, f) /\ ~GetNode(lruk', f)
             THEN [hist EXCEPT ![f] = << >>]
             ELSE hist
  /\ UNCHANGED <<pool, pc, htvars, lruvars, convars, committed, aborted, now>>

NextLruk ==
  \/ \E f \in LrukIds : LrukRecordAccess(f)
  \/ \E f \in LrukIds : \E b \in BOOLEAN : LrukSetEvictable(f, b)
  \/ LrukEvict
  \/ \E f \in LrukIds : LrukRemove(f)

SpecLruk == LrukInit /\ [][NextLruk]_vars

\* ---- SpecScen: a pool of three frames with K = 2, driven by one caller ----
\* who creates pages 0, 1, 2 and unpins each of them, then fetches and
\* unpins page 0 twice, page 1 twice and page 2 once, then calls NewPage.
ScenFrames == 0 .. 2

ScenPageIds == INVALID_PAGE_ID .. 3

\* the pages fetched, in order, each fetch followed by UnpinPage(p, false)
ScenFetches == <<0, 0, 1, 1, 2>>

ScenInit ==
  /\ pages = [f \in ScenFrames |-> EmptyPage]
  /\ page_table = [p \in ScenPageIds |-> INVALID_FRAME_ID]
  /\ free_list = <<0, 1, 2>>
  /\ next_page_id = 0
  /\ replacer = NewReplacer(3, 2)
  /\ disk = [p \in ScenPageIds |-> ZeroData]
  /\ committed = [p \in PageIds |-> NoData]
  /\ aborted = FALSE
  /\ LrukNew(ReplacerK)
  /\ pc = [phase |-> "setup", rest |-> ScenFetches]
  /\ HtNew
  /\ LruNew
  /\ ConcOff

\* a call of the scripted run returning, or dying on assert()
ScenComplete(res) ==
  /\ ~aborted
  /\ IF res.st.assert_ok
     THEN /\ pages' = res.st.pages
          /\ page_table' = res.st.page_table
          /\ free_list' = res.st.free_list
          /\ next_page_id' = res.st.next_page_id
          /\ replacer' = res.st.replacer
          /\ disk' = res.st.disk
          /\ aborted' = FALSE
     ELSE /\ aborted' = TRUE
          /\ UNCHANGED pool
  /\ UNCHANGED <<committed, replvars, htvars, lruvars, convars>>

\* the caller moves on to next unless the call died
ScenGoto(next) == pc' = IF aborted' THEN pc ELSE next

\* the three pages exist and nobody holds a pin: the fetches start
SetupDone ==
  next_page_id' = 3 /\ \A f \in ScenFrames : pages'[f].pin_count = 0

ScenPinned(p) ==
  /\ page_table[p] # INVALID_FRAME_ID
  /\ pages[page_table[p]].pin_count > 0

ScenNewPage ==
  /\ pc.phase = "setup"
  /\ next_page_id < 3
  /\ ScenComplete(NewPgImp(State))
  /\ ScenGoto(IF SetupDone THEN [pc EXCEPT !.phase = "fetch"] ELSE pc)

ScenUnpinNew(p, is_dirty) ==
  /\ pc.phase = "setup"
  /\ p < next_page_id
  /\ ScenPinned(p)
  /\ ScenComplete(UnpinPgImp(State, p, is_dirty))
  /\ ScenGoto(IF SetupDone THEN [pc EXCEPT !.phase = "fetch"] ELSE pc)

ScenFetch ==
  /\ pc.phase = "fetch"
  /\ ~ScenPinned(Head(pc.rest))
  /\ ScenComplete(FetchPgImp(State, Head(pc.rest)))
  /\ ScenGoto(pc)

ScenUnpin ==
  /\ pc.phase = "fetch"
  /\ ScenPinned(Head(pc.rest))
  /\ ScenComplete(UnpinPgImp(State, Head(pc.rest), FALSE))
  /\ ScenGoto(IF Tail(pc.rest) = << >>
              THEN [phase |-> "evict", rest |-> << >>]
              ELSE [pc EXCEPT !.rest = Tail(@)])

ScenEvict ==
  /\ pc.phase = "evict"
  /\ ScenComplete(NewPgImp(State))
  /\ ScenGoto([phase |-> "done", rest |-> << >>])

NextScen ==
  \/ ScenNewPage
  \/ \E p \in 0 .. 2 : \E d \in BOOLEAN : ScenUnpinNew(p, d)
  \/ ScenFetch
  \/ ScenUnpin
  \/ ScenEvict

SpecScen == ScenInit /\ [][NextScen]_vars

\* ---- SpecLru: an LRUReplacer(LruSize) called directly ---------------------
\* unpinned follows the calls: a frame enters at the back when it is
\* unpinned while absent, and leaves when it is pinned or chosen as victim.
LruUnpinA(f) ==
  /\ lru' = LRUUnpin(lru, f)
  /\ unpinned' = IF \/ \E i \in 1 .. Len(unpinned) : unpinned[i] = f
                    \/ Len(unpinned) = LruSize
                 THEN unpinned
                 ELSE Append(unpinned, f)
  /\ UNCHANGED <<pool, committed, aborted, replvars, pc, htvars, convars>>

LruPinA(f) ==
  /\ lru' = LRUPin(lru, f)
  /\ unpinned' = SelectSeq(unpinned, LAMBDA g : g # f)
  /\ UNCHANGED <<pool, committed, aborted, replvars, pc, htvars, convars>>

LruVictimA ==
  /\ lru' = LRUVictim(lru).r
  /\ unpinned' = IF unpinned = << >> THEN unpinned ELSE Tail(unpinned)
  /\ UNCHANGED <<pool, committed, aborted, replvars, pc, htvars, convars>>

NextLru ==
  \/ \E f \in 0 .. LruSize : LruUnpinA(f)
  \/ \E f \in 0 .. LruSize : LruPinA(f)
  \/ LruVictimA

SpecLru == Init /\ [][NextLru]_vars

\* ---- SpecHt: one thread calling Insert, Remove and Find on a table -------
\* kv follows the calls as a plain map would.
HtInit ==
  /\ PoolInit
  /\ LrukNew(ReplacerK)
  /\ pc = ScenOff
  /\ HtNew
  /\ LruNew
  /\ ConcOff

HtInsertA(key, value) ==
  /\ ht' = HtInsert(ht, key, value)
  /\ kv' = [kv EXCEPT ![key] = value]
  /\ UNCHANGED <<pool, committed, aborted, replvars, pc, lruvars, convars>>

HtRemoveA(key) ==
  /\ ht' = HtRemove(ht, key).h
  /\ kv' = [kv EXCEPT ![key] = NoValue]
  /\ UNCHANGED <<pool, committed, aborted, replvars, pc, lruvars, convars>>

\* Find reads the table and changes nothing
HtFindA(key) ==
  /\ HtFind(ht, key).ok \in BOOLEAN
  /\ UNCHANGED vars

NextHt ==
  \/ \E k \in HtKeys : \E v \in HtValues : HtInsertA(k, v)
  \/ \E k \in HtKeys : HtRemoveA(k)
  \/ \E k \in HtKeys : HtFindA(k)

SpecHt == HtInit /\ [][NextHt]_vars

\* ---- SpecHtIns: one thread that only inserts ------------------------------
NextHtIns == \E k \in HtKeys : \E v \in HtValues : HtInsertA(k, v)

SpecHtIns == HtInit /\ [][NextHtIns]_vars

\* ---- SpecHtCon: NumThreads threads calling Find, Remove and Insert on ----
\* one table of bucket size ConBucketSize.  A step is what a thread does
\* from one latch operation to the next; kv changes where a call takes
\* effect: at the successful Bucket::Insert and at Bucket::Remove.
ConKeys == {0, 2}

HtConInit ==
  /\ PoolInit
  /\ LrukNew(ReplacerK)
  /\ pc = ScenOff
  /\ ht = NewHashTable(ConBucketSize)
  /\ kv = [k \in ConKeys |-> NoValue]
  /\ LruNew
  /\ ConcOff

\* ReaderWriterLatch: any number of readers or one writer
CanRLock(b) == \A t \in Threads : <<b, t, "w">> \notin bucket_latch

CanWLock(b) ==
  \A t \in Threads : \A m \in {"r", "w"} : <<b, t, m>> \notin bucket_latch

HeldBy(t) == {l \in bucket_latch : l[2] = t}

ConUnchanged == UNCHANGED <<pool, committed, aborted, replvars, pc, lruvars>>

\* a thread calls Find(key), Remove(key) or Insert(key, 0)
ConCall(t, op, key) ==
  /\ th[t].pc = "idle"
  /\ th' = [th EXCEPT ![t] = [ThIdle EXCEPT !.pc = "lock_dir",
                                            !.op = op,
                                            !.key = key,
                                            !.before = (kv[key] # NoValue)]]
  /\ UNCHANGED <<ht, kv, dir_latch, bucket_latch>>
  /\ ConUnchanged

\* latch_.lock()
ConLockDir(t) ==
  /\ th[t].pc = "lock_dir"
  /\ dir_latch = NoThread
  /\ dir_latch' = t
  /\ th' = [th EXCEPT ![t].pc = "lock_bucket"]
  /\ UNCHANGED <<ht, kv, bucket_latch>>
  /\ ConUnchanged

\* variant of the step below for Find and Remove: the directory latch is
\* released with the bucket found and its latch not taken
ConLockBucket_Unlatched(t) ==
  LET b == ht.dir[IndexOf(ht, th[t].key) + 1]
  IN /\ th[t].pc = "lock_bucket"
     /\ IF th[t].op = "Insert"
        THEN /\ CanWLock(b)
             /\ bucket_latch' = bucket_latch \cup {<<b, t, "w">>}
             /\ th' = [th EXCEPT ![t].bucket = b, ![t].pc = "bucket_insert"]
             /\ UNCHANGED dir_latch
        ELSE /\ dir_latch' = NoThread
             /\ th' = [th EXCEPT ![t].bucket = b, ![t].pc = "bucket_op"]
             /\ UNCHANGED bucket_latch
     /\ UNCHANGED <<ht, kv>>
     /\ ConUnchanged

\* bucket = dir_[IndexOf(key)]; bucket->GetReadLock() in Find,
\* bucket->GetWriteLock() in Remove and Insert
ConLockBucket(t) ==
  LET b == ht.dir[IndexOf(ht, th[t].key) + 1]
  IN /\ th[t].pc = "lock_bucket"
     /\ IF th[t].op = "Find" THEN CanRLock(b) ELSE CanWLock(b)
     /\ bucket_latch' = bucket_latch \cup
                          {<<b, t, IF th[t].op = "Find" THEN "r" ELSE "w">>}
     /\ th' = [th EXCEPT ![t].bucket = b,
                         ![t].pc = IF th[t].op = "Insert"
                                   THEN "bucket_insert" ELSE "unlock_dir"]
     /\ UNCHANGED <<ht, kv, dir_latch>>
     /\ ConUnchanged

\* latch_.unlock() of Find and Remove
ConUnlockDir(t) ==
  /\ th[t].pc = "unlock_dir"
  /\ dir_latch' = NoThread
  /\ th' = [th EXCEPT ![t].pc = "bucket_op"]
  /\ UNCHANGED <<ht, kv, bucket_latch>>
  /\ ConUnchanged

\* variant of the step below: the bucket's latch stays held
ConBucketFind_KeepLatch(t) ==
  /\ th[t].pc = "bucket_op"
  /\ th[t].op = "Find"
  /\ th' = [th EXCEPT ![t].ret = BucketFind(ht.buckets[th[t].bucket],
                                            th[t].key).ok,
                      ![t].pc = "done"]
  /\ UNCHANGED <<ht, kv, dir_latch, bucket_latch>>
  /\ ConUnchanged

\* bucket->Find(key, value), which ends with latch_.RUnlock()
ConBucketFind(t) ==
  /\ th[t].pc = "bucket_op"
  /\ th[t].op = "Find"
  /\ th' = [th EXCEPT ![t].ret = BucketFind(ht.buckets[th[t].bucket],
                                            th[t].key).ok,
                      ![t].pc = "done"]
  /\ bucket_latch' = bucket_latch \ {<<th[t].bucket, t, "r">>}
  /\ UNCHANGED <<ht, kv, dir_latch>>
  /\ ConUnchanged

\* bucket->Remove(key), which ends with latch_.WUnlock()
ConBucketRemove(t) ==
  LET r == BucketRemove(ht.buckets[th[t].bucket], th[t].key)
  IN /\ th[t].pc = "bucket_op"
     /\ th[t].op = "Remove"
     /\ ht' = [ht EXCEPT !.buckets[th[t].bucket] = r.b]
     /\ kv' = IF r.ok THEN [kv EXCEPT ![th[t].key] = NoValue] ELSE kv
     /\ th' = [u \in Threads |->
                IF u = t
                THEN [th[t] EXCEPT !.ret = r.ok, !.pc = "done"]
                ELSE IF r.ok /\ th[u].pc \notin {"idle", "done"}
                        /\ th[u].key = th[t].key
                     THEN [th[u] EXCEPT !.undone = TRUE]
                     ELSE th[u]]
     /\ bucket_latch' = bucket_latch \ {<<th[t].bucket, t, "w">>}
     /\ UNCHANGED dir_latch
     /\ ConUnchanged

\* success = bucket->Insert(key, value).  On success the latch is released;
\* on failure the bucket is split: new depth, directory doubling, the new
\* bucket, GetCopiedItems(), ClearItems(), ReleaseWriteLock()
ConBucketInsert(t) ==
  LET b == th[t].bucket
      r == BucketInsert(ht.buckets[b], th[t].key, th[t].value, ht.bucket_size)
      sp == SplitClear(ht, IndexOf(ht, th[t].key))
  IN /\ th[t].pc = "bucket_insert"
     /\ IF r.ok
        THEN /\ ht' = [ht EXCEPT !.buckets[b] = r.b]
             /\ kv' = [kv EXCEPT ![th[t].key] = th[t].value]
             /\ th' = [th EXCEPT ![t].pc = "unlock_dir_end"]
        ELSE /\ ht' = sp.h
             /\ kv' = kv
             /\ th' = [u \in Threads |->
                        IF u = t
                        THEN [th[t] EXCEPT !.items = sp.items,
                                           !.pair_index = sp.pair_index,
                                           !.local_depth = sp.local_depth,
                                           !.pc = "repoint"]
                        ELSE IF /\ th[u].pc \notin {"idle", "done"}
                                /\ BucketPos(sp.items, th[u].key) # 0
                             THEN [th[u] EXCEPT !.raced = TRUE]
                             ELSE th[u]]
     /\ bucket_latch' = bucket_latch \ {<<b, t, "w">>}
     /\ UNCHANGED dir_latch
     /\ ConUnchanged

\* the two loops dir_[i] = dir_[pair_index]
ConRepoint(t) ==
  /\ th[t].pc = "repoint"
  /\ ht' = SplitRepoint(ht, th[t].pair_index, th[t].local_depth)
  /\ th' = [th EXCEPT ![t].pair_index = 0,
                      ![t].local_depth = 0,
                      ![t].pc = "redistribute"]
  /\ UNCHANGED <<kv, dir_latch, bucket_latch>>
  /\ ConUnchanged

\* the loop over itemsToInsert: dir_[cur_bucket_no]->GetWriteLock(), or
\* the next pass of the outer loop when no item is left
ConRedistribute(t) ==
  /\ th[t].pc = "redistribute"
  /\ IF th[t].items = << >>
     THEN /\ th' = [th EXCEPT ![t].pc = "lock_bucket"]
          /\ UNCHANGED bucket_latch
     ELSE LET b == ht.dir[IndexOf(ht, Head(th[t].items)[1]) + 1]
          IN /\ CanWLock(b)
             /\ bucket_latch' = bucket_latch \cup {<<b, t, "w">>}
             /\ th' = [th EXCEPT ![t].bucket = b, ![t].pc = "reinsert"]
  /\ UNCHANGED <<ht, kv, dir_latch>>
  /\ ConUnchanged

\* dir_[cur_bucket_no]->Insert(item), a refusal only logged, and
\* ReleaseWriteLock()
ConReinsert(t) ==
  LET b == th[t].bucket
      item == Head(th[t].items)
      r == BucketInsert(ht.buckets[b], item[1], item[2], ht.bucket_size)
  IN /\ th[t].pc = "reinsert"
     /\ ht' = [ht EXCEPT !.buckets[b] = r.b]
     /\ bucket_latch' = bucket_latch \ {<<b, t, "w">>}
     /\ th' = [th EXCEPT ![t].items = Tail(@), ![t].pc = "redistribute"]
     /\ UNCHANGED <<kv, dir_latch>>
     /\ ConUnchanged

\* latch_.unlock() at the end of Insert
ConUnlockDirEnd(t) ==
  /\ th[t].pc = "unlock_dir_end"
  /\ dir_latch' = NoThread
  /\ th' = [th EXCEPT ![t].pc = "done"]
  /\ UNCHANGED <<ht, kv, bucket_latch>>
  /\ ConUnchanged

\* the call returns
ConReturn(t) ==
  /\ th[t].pc = "done"
  /\ th' = [th EXCEPT ![t] = ThIdle]
  /\ UNCHANGED <<ht, kv, dir_latch, bucket_latch>>
  /\ ConUnchanged

\* what a thread inside a call does next
ConStep(t) ==
  \/ ConLockDir(t)
  \/ ConLockBucket(t)
  \/ ConUnlockDir(t)
  \/ ConBucketFind(t)
  \/ ConBucketRemove(t)
  \/ ConBucketInsert(t)
  \/ ConRepoint(t)
  \/ ConRedistribute(t)
  \/ ConReinsert(t)
  \/ ConUnlockDirEnd(t)
  \/ ConReturn(t)

NextHtCon ==
  \/ \E t \in Threads : \E op \in {"Find", "Remove", "Insert"} :
       \E k \in ConKeys : ConCall(t, op, k)
  \/ \E t \in Threads : ConStep(t)

SpecHtCon == HtConInit /\ [][NextHtCon]_vars

\* ---- SpecHtConFair: the same under fair scheduling: a thread inside a ----
\* call that can take its next step again and again takes it.  The
\* scheduler runs every thread, and a latch that is freed again and again
\* is granted to each thread waiting for it.
SpecHtConFair ==
  /\ SpecHtCon
  /\ \A t \in Threads : SF_vars(ConStep(t))

\* ---- SpecHtSeq: keys 0 .. 7 inserted in that order into a new table ------
\* of bucket size 2; the values are the caller's choice
HtSeqKeys == <<0, 1, 2, 3, 4, 5, 6, 7>>

HtSeqInit ==
  /\ PoolInit
  /\ LrukNew(ReplacerK)
  /\ pc = [phase |-> "insert", rest |-> HtSeqKeys]
  /\ ht = NewHashTable(2)
  /\ kv = [k \in 0 .. 7 |-> NoValue]
  /\ LruNew
  /\ ConcOff

HtSeqInsert(value) ==
  /\ pc.phase = "insert"
  /\ pc.rest # << >>
  /\ ht' = HtInsert(ht, Head(pc.rest), value)
  /\ kv' = [kv EXCEPT ![Head(pc.rest)] = value]
  /\ pc' = [pc EXCEPT !.rest = Tail(@)]
  /\ UNCHANGED <<pool, committed, aborted, replvars, lruvars, convars>>

NextHtSeq == \E v \in HtValues : HtSeqInsert(v)

SpecHtSeq == HtSeqInit /\ [][NextHtSeq]_vars

TypeOK ==
  /\ \A f \in Frames : pages[f].page_id \in PageIds /\ pages[f].data \in Data
  /\ \A p \in PageIds : page_table[p] \in Frames \cup {INVALID_FRAME_ID}
\* =========================================================================
\* Properties
\* =========================================================================
Resident(p) == PageTableFind(page_table, p)

Tracked(f) == GetNode(replacer, f)

Evictable(f) == GetNode(replacer, f) /\ replacer.nodes[f].evictable

InFreeList(f) == \E i \in 1 .. Len(free_list) : free_list[i] = f

HoldsPage(f) == pages[f].page_id # INVALID_PAGE_ID

\* the frame NewPage or a miss-path FetchPage would take in this state
Victim == GetVictimPage(State).frame_id

\* C1: while a frame's pin count is greater than 0 the page id it holds
\* does not change: NewPage and miss-path FetchPage do not pick the frame
\* as their victim and DeletePage does not put it on the free list.
C1_PinnedFrameKept ==
  [][\A f \in Frames :
       pages[f].pin_count > 0 =>
         /\ pages'[f].page_id = pages[f].page_id
         /\ NewPage => Victim # f
         /\ \A p \in PageIds : (FetchPage(p) /\ ~Resident(p)) => Victim # f
         /\ \A p \in PageIds :
              (DeletePage(p) /\ free_list' # free_list) => page_table[p] # f
    ]_vars

\* contents a FetchPage(p) would find: the frame's if p is resident, the
\* disk's otherwise
Contents(p) ==
  IF Resident(p) THEN pages[page_table[p]].data ELSE disk[p]

\* C2: contents handed back with UnpinPage(p, true) are not lost: until p
\* is written again or deleted they are in p's frame or on disk under p,
\* and a successful FetchPage(p) returns a frame that holds them.
C2_ModifiedPageKept ==
  \A p \in PageIds :
    committed[p] # NoData =>
      /\ Contents(p) = committed[p]
      /\ LET res == FetchPgImp(State, p)
         IN res.ret # INVALID_FRAME_ID =>
              res.st.pages[res.ret].data = committed[p]

\* C3: every pin count is >= 0; a frame that holds a page is evictable in
\* the replacer exactly when its pin count is 0; and NewPage succeeds
\* whenever some frame holding a page is unpinned.
C3_EvictableIffUnpinned ==
  /\ \A f \in Frames :
       /\ pages[f].pin_count >= 0
       /\ HoldsPage(f) => (Evictable(f) <=> pages[f].pin_count = 0)
       /\ pages[f].pin_count > 0 => ~Evictable(f)
  /\ (\E f \in Frames : HoldsPage(f) /\ pages[f].pin_count = 0) =>
       LET res == NewPgImp(State)
       IN res.ret # INVALID_FRAME_ID /\ res.st.assert_ok

\* C4: the page table maps p to f exactly when frame f holds p, and no two
\* frames hold the same page id.
C4_PageTableBijection ==
  /\ page_table[INVALID_PAGE_ID] = INVALID_FRAME_ID
  /\ \A p \in PageIds \ {INVALID_PAGE_ID} : \A f \in Frames :
       page_table[p] = f <=> pages[f].page_id = p
  /\ \A f \in Frames : \A g \in Frames :
       (f # g /\ HoldsPage(f)) => pages[f].page_id # pages[g].page_id

\* frames were reused: more pages were created than there are frames, one
\* of them is out of the pool and both frames hold pages
C4_Witness ==
  /\ next_page_id > PoolSize
  /\ \E p \in Allocated : ~Resident(p)
  /\ \A f \in Frames : HoldsPage(f) /\ page_table[pages[f].page_id] = f

\* C5: every frame is in exactly one of the free list and the replacer's
\* tracked set, so their sizes add up to the pool size.
C5_FreeOrTracked ==
  /\ \A f \in Frames : InFreeList(f) <=> ~Tracked(f)
  /\ Len(free_list) + Cardinality({f \in Frames : Tracked(f)}) = PoolSize

\* C6: a frame is on the free list exactly when its page id is the
\* sentinel.
C6_FreeIffSentinel ==
  \A f \in Frames : InFreeList(f) <=> pages[f].page_id = INVALID_PAGE_ID

AllPinnedNoFree ==
  free_list = << >> /\ \A f \in Frames : pages[f].pin_count > 0

\* C7: with an empty free list and every frame pinned, NewPage and
\* FetchPage of a non-resident page return null and change nothing; a
\* failed NewPage consumes no page id, so NewPage hands out next_page_id,
\* next_page_id + 1, ... without gaps.
C7_FullPoolFails ==
  /\ [](AllPinnedNoFree =>
          /\ NewPgImp(State).ret = INVALID_FRAME_ID
          /\ NewPgImp(State).st = State
          /\ \A p \in PageIds : ~Resident(p) =>
               /\ FetchPgImp(State, p).ret = INVALID_FRAME_ID
               /\ FetchPgImp(State, p).st = State)
  /\ [][(AllPinnedNoFree /\ (NewPage \/ \E p \in PageIds :
                                          ~Resident(p) /\ FetchPage(p)))
          => UNCHANGED vars]_vars
  /\ [][next_page_id' # next_page_id =>
          /\ NewPage
          /\ NewPgImp(State).ret # INVALID_FRAME_ID
          /\ NewPgImp(State).page_id = next_page_id
          /\ next_page_id' = next_page_id + 1]_vars

\* the pool is full of pinned pages, a created page is out of the pool and
\* a page id is still to be handed out
C7_Witness ==
  /\ AllPinnedNoFree
  /\ next_page_id <= MaxPageId
  /\ \E p \in Allocated : ~Resident(p)
  /\ ~aborted

\* C8: the error and no-op returns leave the pool as it was: UnpinPage of a
\* non-resident page or of a page with pin count 0 returns false (and does
\* not set the dirty flag), DeletePage returns false for a pinned page and
\* true for a non-resident one, FlushPage returns false for the sentinel
\* and for a non-resident page.
C8_NoOpReturns ==
  \A p \in PageIds :
    /\ (~Resident(p) \/ pages[page_table[p]].pin_count = 0) =>
         \A d \in BOOLEAN :
           /\ UnpinPgImp(State, p, d).ret = FALSE
           /\ UnpinPgImp(State, p, d).st = State
    /\ (Resident(p) /\ pages[page_table[p]].pin_count > 0) =>
         /\ DeletePgImp(State, p).ret = FALSE
         /\ DeletePgImp(State, p).st = State
    /\ ~Resident(p) =>
         /\ DeletePgImp(State, p).ret = TRUE
         /\ DeletePgImp(State, p).st = State
    /\ (p = INVALID_PAGE_ID \/ ~Resident(p)) =>
         /\ FlushPgImp(State, p).ret = FALSE
         /\ FlushPgImp(State, p).st = State

\* the step is a pool call that wrote w = <<page id, contents>> to disk
StepWrote(w) ==
  \/ NewPage /\ w \in NewPgImp(State).st.written
  \/ \E p \in PageIds : FetchPage(p) /\ w \in FetchPgImp(State, p).st.written
  \/ \E p \in PageIds : FlushPage(p) /\ w \in FlushPgImp(State, p).st.written
  \/ FlushAllPages /\ w \in FlushAllPgsImp(State).st.written
  \/ \E p \in PageIds : DeletePage(p) /\ w \in DeletePgImp(State, p).st.written

\* C9: dirtiness is sticky: a dirty flag goes from true to false only in a
\* step that writes the frame's contents to disk under the frame's page
\* id; UnpinPage, which writes nothing, never clears it.
C9_DirtySticky ==
  [][\A f \in Frames :
       (pages[f].is_dirty /\ ~pages'[f].is_dirty) =>
         StepWrote(<<pages[f].page_id, pages[f].data>>)]_vars

\* a modified page was flushed while resident: its frame is clean and the
\* disk has the modified contents
C9_Witness ==
  \E f \in Frames :
    /\ HoldsPage(f)
    /\ ~pages[f].is_dirty
    /\ pages[f].data = MaxData
    /\ disk[pages[f].page_id] = MaxData

\* C10: DeletePage(p) of a resident page with pin count 0 returns true,
\* writes the page out if it is dirty, removes p from the page table and
\* the frame from the replacer (Size drops by one) and puts the frame on
\* the free list with sentinel id, pin count 0 and dirty flag false; so
\* every frame on the free list has pin count 0, dirty flag false and the
\* sentinel page id.
C10_DeleteFreesFrame ==
  /\ [][\A p \in PageIds :
          (DeletePage(p) /\ Resident(p) /\ pages[page_table[p]].pin_count = 0)
          => LET f == page_table[p]
             IN /\ DeletePgImp(State, p).ret = TRUE
                /\ ~aborted'
                /\ page_table'[p] = INVALID_FRAME_ID
                /\ ~GetNode(replacer', f)
                /\ Size(replacer') = Size(replacer) - 1
                /\ \E i \in 1 .. Len(free_list') : free_list'[i] = f
                /\ pages'[f].page_id = INVALID_PAGE_ID
                /\ pages'[f].pin_count = 0
                /\ ~pages'[f].is_dirty
                /\ pages[f].is_dirty => disk'[p] = pages[f].data
       ]_vars
  /\ [](\A f \in Frames :
          InFreeList(f) =>
            /\ pages[f].pin_count = 0
            /\ ~pages[f].is_dirty
            /\ pages[f].page_id = INVALID_PAGE_ID)
\* C11: FlushPage(p) of a resident page, pinned or not, dirty or not,
\* writes the frame's contents to disk under p, clears the dirty flag and
\* returns true, so that the disk contents of p equal the frame's; pin
\* count, contents, page table, free list, replacer and page-id counter
\* stay as they were.
C11_FlushWritesAlways ==
  \A p \in PageIds \ {INVALID_PAGE_ID} :
    Resident(p) =>
      LET f == page_table[p]
          res == FlushPgImp(State, p)
      IN /\ res.ret = TRUE
         /\ res.st.assert_ok
         /\ <<p, pages[f].data>> \in res.st.written
         /\ res.st.disk[p] = res.st.pages[f].data
         /\ res.st.pages = [pages EXCEPT ![f].is_dirty = FALSE]
         /\ res.st.page_table = page_table
         /\ res.st.free_list = free_list
         /\ res.st.replacer = replacer
         /\ res.st.next_page_id = next_page_id

\* a page was flushed while pinned: its frame is pinned and clean and the
\* disk has the contents the caller wrote
C11_Witness ==
  \E f \in Frames :
    /\ HoldsPage(f)
    /\ pages[f].pin_count > 0
    /\ ~pages[f].is_dirty
    /\ pages[f].data = MaxData
    /\ disk[pages[f].page_id] = MaxData
    /\ page_table[pages[f].page_id] = f

\* C12: a successful NewPage returns a frame with the next page id mapped
\* to it, pin count 1, dirty flag false, all-zero contents and one
\* recorded, non-evictable access in the replacer, from the free list or
\* from eviction alike; a dirty occupant was written to disk and the
\* occupant's page-table entry is gone.
C12_NewPageFrame ==
  LET res == NewPgImp(State)
      f == res.ret
  IN (next_page_id <= MaxPageId /\ f # INVALID_FRAME_ID /\ res.st.assert_ok) =>
       /\ res.page_id = next_page_id
       /\ res.st.page_table[res.page_id] = f
       /\ res.st.pages[f] = [page_id |-> res.page_id, pin_count |-> 1,
                             is_dirty |-> FALSE, data |-> ZeroData]
       /\ GetNode(res.st.replacer, f)
       /\ res.st.replacer.nodes[f] = [access_times |-> 1, evictable |-> FALSE]
       /\ HoldsPage(f) =>
            /\ pages[f].is_dirty =>
                 /\ <<pages[f].page_id, pages[f].data>> \in res.st.written
                 /\ res.st.disk[pages[f].page_id] = pages[f].data
            /\ pages[f].page_id # res.page_id =>
                 res.st.page_table[pages[f].page_id] = INVALID_FRAME_ID

\* C13: while the free list is not empty, NewPage and miss-path FetchPage
\* take its head and do not ask the replacer: no frame that holds a page
\* loses it and no frame leaves the replacer.
C13_FreeListFirst ==
  /\ [](free_list # << >> =>
          /\ Victim = Head(free_list)
          /\ GetVictimPage(State).st.replacer = replacer)
  /\ [][(free_list # << >> /\ (NewPage \/ \E p \in PageIds :
                                            ~Resident(p) /\ FetchPage(p)))
          => \A f \in Frames :
               /\ HoldsPage(f) => pages'[f].page_id = pages[f].page_id
               /\ Tracked(f) => GetNode(replacer', f)]_vars

\* NewPage is about to take a free frame while another frame holds an
\* unpinned, evictable page
C13_Witness ==
  /\ free_list # << >>
  /\ \E f \in Frames : HoldsPage(f) /\ Evictable(f) /\ pages[f].pin_count = 0
  /\ next_page_id <= MaxPageId
  /\ ~aborted

\* =========================================================================
\* LRUKReplacer, called directly (SpecLruk)
\* =========================================================================
LrukTracked == {f \in LrukIds : GetNode(lruk, f)}

LrukEvictable == {f \in LrukTracked : lruk.nodes[f].evictable}

\* time of the i-th most recent recorded access of a tracked frame
Recent(f, i) == hist[f][Len(hist[f]) - i + 1]

\* evictable frames with fewer than k recorded accesses, and the others
Young == {f \in LrukEvictable : Len(hist[f]) < lruk.k}

Old == LrukEvictable \ Young

\* C14: Size() is the number of tracked frames whose evictable flag is
\* true, after every sequence of RecordAccess, SetEvictable, Evict and
\* Remove.  SetEvictable on an unknown frame, or with the value the frame
\* already has, changes nothing; false -> true adds one and true -> false
\* subtracts one; Evict and Remove subtract one exactly when they remove a
\* frame, and leave the size alone otherwise.
C14_SizeCountsEvictable ==
  /\ [](Size(lruk) = Cardinality(LrukEvictable))
  /\ [][\A f \in LrukIds : \A b \in BOOLEAN :
          LrukSetEvictable(f, b) =>
            IF f \notin LrukTracked \/ lruk.nodes[f].evictable = b
            THEN lruk' = lruk
            ELSE Size(lruk') = Size(lruk) + (IF b THEN 1 ELSE 0 - 1)]_vars
  /\ [][(LrukEvict \/ \E f \in LrukIds : LrukRemove(f)) =>
          LET removed == LrukTracked \ {f \in LrukIds : GetNode(lruk', f)}
          IN Size(lruk') = Size(lruk) - Cardinality(removed)
             /\ Cardinality(removed) <= 1]_vars

C14_Witness ==
  /\ Cardinality(LrukTracked) = 3
  /\ Size(lruk) = 2
  /\ \E f \in LrukIds \ LrukTracked : now = MaxNow /\ hist[f] = << >>

C16_BackwardKDistance ==
  LET e == Evict(lruk)
  IN (lruk.k >= 2 /\ LrukEvictable # {} /\ Young = {}) =>
       /\ e.ok
       /\ e.frame_id \in LrukEvictable
       /\ \A g \in LrukEvictable :
            Recent(e.frame_id, lruk.k) <= Recent(g, lruk.k)

\* C17: when several evictable frames have fewer than K recorded accesses,
\* Evict returns the one whose first recorded access is oldest, whatever
\* accesses were recorded later.
C17_EarliestFirstAccess ==
  LET e == Evict(lruk)
  IN Cardinality(Young) >= 2 =>
       /\ e.ok
       /\ e.frame_id \in Young
       /\ \A g \in Young : hist[e.frame_id][1] <= hist[g][1]

\* C18: with K = 1 the replacer is a classical LRU over the evictable
\* frames: Evict returns the evictable frame whose most recent
\* RecordAccess is oldest.
C18_KOneIsLRU ==
  LET e == Evict(lruk)
  IN (lruk.k = 1 /\ LrukEvictable # {}) =>
       /\ e.ok
       /\ e.frame_id \in LrukEvictable
       /\ \A g \in LrukEvictable : Recent(e.frame_id, 1) <= Recent(g, 1)

C18_Witness ==
  /\ lruk.k = 1
  /\ \E f \in LrukEvictable : \E g \in LrukEvictable :
        /\ hist[f][1] < hist[g][1]
        /\ Recent(g, 1) < Recent(f, 1)

\* how often frame f occurs in a list
Occurs(list, f) == Cardinality({i \in 1 .. Len(list) : list[i] = f})

\* C25: after any sequence of replacer operations, K >= 1, every tracked
\* frame is in exactly one of the history and cache structures, list and
\* map agreeing; it is in history iff its access count is below K and in
\* cache iff it is at least K.  A frame moves from history to the head of
\* the cache list exactly on its K-th RecordAccess, and never moves back
\* while it stays tracked.
C25_OneStructure ==
  /\ [](\A f \in LrukIds :
         /\ Occurs(lruk.history_list, f)
              = (IF f \in lruk.history_frames THEN 1 ELSE 0)
         /\ Occurs(lruk.buffer_list, f)
              = (IF f \in lruk.buffer_frames THEN 1 ELSE 0)
         /\ ~(f \in lruk.history_frames /\ f \in lruk.buffer_frames)
         /\ lruk.nodes[f].access_times = Len(hist[f])
         /\ f \in lruk.history_frames
              <=> (1 <= Len(hist[f]) /\ Len(hist[f]) < lruk.k)
         /\ f \in lruk.buffer_frames <=> Len(hist[f]) >= lruk.k)
  /\ [](/\ lruk.history_frame_size = Cardinality(lruk.history_frames)
        /\ lruk.buffer_frame_size = Cardinality(lruk.buffer_frames))
  /\ [][\A f \in LrukIds :
          /\ (f \notin lruk.buffer_frames /\ f \in lruk'.buffer_frames) =>
               /\ LrukRecordAccess(f)
               /\ Len(hist'[f]) = lruk.k
               /\ Head(lruk'.buffer_list) = f
          /\ (Len(hist[f]) = lruk.k - 1 /\ LrukRecordAccess(f)
                /\ GetNode(lruk', f)) => Head(lruk'.buffer_list) = f
          /\ (f \in lruk.buffer_frames /\ GetNode(lruk', f)) =>
               f \in lruk'.buffer_frames]_vars

C25_Witness ==
  /\ lruk.k = 3
  /\ lruk.history_frames # {}
  /\ Len(lruk.buffer_list) = 1
  /\ \E f \in lruk.history_frames : Len(hist[f]) = 2
  /\ \E f \in LrukIds : ~GetNode(lruk, f) /\ now = MaxNow

\* C26: Evict and Remove delete a frame's access history.  After frame f is
\* evicted or removed it is untracked, and the next RecordAccess(f)
\* re-creates it with access count 1, non-evictable, at the head of the
\* history list (for K > 1), however many accesses it had before.  Remove
\* on an unknown or non-evictable frame changes nothing.
Recreated(r, f) ==
  LET r2 == RecordAccess(r, f)
  IN /\ ~GetNode(r, f)
     /\ Occurs(r.history_list, f) = 0 /\ Occurs(r.buffer_list, f) = 0
     /\ GetNode(r2, f)
     /\ r2.nodes[f] = [access_times |-> 1, evictable |-> FALSE]
     /\ r2.k > 1 => (r2.history_list # << >> /\ Head(r2.history_list) = f
                      /\ f \notin r2.buffer_frames)

C19_EvictsPageTwo ==
  /\ pc.phase \in {"fetch", "evict"} =>
       \A i \in 0 .. 2 : pages[i].page_id = i /\ page_table[i] = i
  /\ pc.phase = "evict" =>
       LET res == NewPgImp(State)
       IN /\ res.ret # INVALID_FRAME_ID
          /\ res.st.assert_ok
          /\ pages[res.ret].page_id = 2
          /\ res.st.page_table[2] = INVALID_FRAME_ID
          /\ res.st.page_table[0] = 0
          /\ res.st.page_table[1] = 1

\* =========================================================================
\* ExtendibleHashTable, called directly (SpecHt)
\* =========================================================================
\* the buckets the directory points at
HtBuckets == {ht.dir[j] : j \in 1 .. Len(ht.dir)}

\* the places <<bucket, position>> where key is stored
HtPlaces(key) ==
  {<<b, i>> \in HtBuckets \X (1 .. HtBucketSize) :
     i <= Len(ht.buckets[b].list) /\ ht.buckets[b].list[i][1] = key}

HtPresent(key) == kv[key] # NoValue

\* the shape of a table: directory, depths, and how many buckets exist
HtShape(h) ==
  <<h.global_depth, h.dir, [b \in 1 .. Len(h.buckets) |-> h.buckets[b].depth]>>

\* C20: the table refines a map, for every sequence of Insert, Remove and
\* Find by one thread.  Find(k) returns the value of the latest Insert(k, v)
\* not followed by Remove(k) and reports absent otherwise; Remove(k)
\* returns true iff k is present; Insert of a present key overwrites its
\* value without splitting, also when the bucket is full; and no entry is
\* lost, duplicated or misplaced by a split or a directory doubling: every
\* present key is stored exactly once, in the bucket its directory slot
\* points at, and nothing else is stored.
C20_RefinesMap ==
  /\ \A k \in HtKeys :
       /\ HtFind(ht, k).ok = HtPresent(k)
       /\ HtPresent(k) => HtFind(ht, k).value = kv[k]
       /\ HtRemove(ht, k).ret = HtPresent(k)
       /\ Cardinality(HtPlaces(k)) = IF HtPresent(k) THEN 1 ELSE 0
       /\ \A pl \in HtPlaces(k) :
            /\ pl[1] = ht.dir[IndexOf(ht, k) + 1]
            /\ ht.buckets[pl[1]].list[pl[2]][2] = kv[k]
  /\ \A b \in HtBuckets : \A i \in 1 .. Len(ht.buckets[b].list) :
       ht.buckets[b].list[i][1] \in HtKeys
  /\ \A k \in HtKeys : \A v \in HtValues :
       HtPresent(k) =>
         LET h2 == HtInsert(ht, k, v)
         IN /\ HtShape(h2) = HtShape(ht)
            /\ HtFind(h2, k) = [ok |-> TRUE, value |-> v]
            /\ \A k2 \in HtKeys \ {k} : HtFind(h2, k2) = HtFind(ht, k2)

C20_Witness ==
  /\ ht.global_depth = 3
  /\ \E b \in HtBuckets : ht.buckets[b].depth < ht.global_depth
  /\ \E k \in HtKeys :
       /\ HtPresent(k)
       /\ kv[k] = MaxValue
       /\ IsFull(ht.buckets[ht.dir[IndexOf(ht, k) + 1]], HtBucketSize)
  /\ \E k \in HtKeys : ~HtPresent(k)
  /\ Cardinality({k \in HtKeys : HtPresent(k)}) >= 4

\* slots of the directory, numbered from 0 as dir_ is
HtSlots == 0 .. (Len(ht.dir) - 1)

\* C21: after every Insert or Remove the directory has 2^global_depth
\* slots; every bucket's local depth is at most the global depth; slots i
\* and j reference the same bucket iff they agree on the low local_depth
\* bits of that bucket, so exactly 2^(global_depth - local_depth) slots
\* reference each bucket; and every stored key k lies in the bucket at slot
\* hash(k) mod 2^global_depth.
C21_DirectoryShape ==
  /\ Len(ht.dir) = 2 ^ ht.global_depth
  /\ \A b \in HtBuckets : ht.buckets[b].depth <= ht.global_depth
  /\ \A i \in HtSlots : \A j \in HtSlots :
       LET d == ht.buckets[ht.dir[i + 1]].depth
       IN (ht.dir[i + 1] = ht.dir[j + 1]) <=> (i % (2 ^ d) = j % (2 ^ d))
  /\ \A b \in HtBuckets :
       Cardinality({i \in HtSlots : ht.dir[i + 1] = b})
         = 2 ^ (ht.global_depth - ht.buckets[b].depth)
  /\ \A b \in HtBuckets : \A n \in 1 .. Len(ht.buckets[b].list) :
       ht.dir[(Hash(ht.buckets[b].list[n][1]) % (2 ^ ht.global_depth)) + 1] = b

C21_Witness ==
  /\ ht.global_depth = 3
  /\ \E b \in HtBuckets : ht.buckets[b].depth = 1 /\ Len(ht.buckets[b].list) = 2
  /\ \E b \in HtBuckets : ht.buckets[b].depth = 2
  /\ \E b \in HtBuckets : ht.buckets[b].depth = 3 /\ ht.buckets[b].list # << >>

\* more than size of the keys present in map m agree on the low d bits of
\* their hash
Crowded(m, size, d) ==
  \E r \in 0 .. (2 ^ d - 1) :
    Cardinality({k \in DOMAIN m : m[k] # NoValue /\ Hash(k) % (2 ^ d) = r})
      > size

\* the smallest depth from d on that is not crowded
RECURSIVE SmallestDepth(_, _, _)
SmallestDepth(m, size, d) ==
  IF Crowded(m, size, d) THEN SmallestDepth(m, size, d + 1) ELSE d

\* C22: with bucket_size = 2 and the identity hash, inserting the keys
\* 0, 1, 2, 3, 4, 5, 6, 7 in that order into an empty table grows the
\* directory to global depth 3.
C22_DepthThree ==
  (pc.phase = "insert" /\ pc.rest = << >>) => ht.global_depth = 3

\* C22, as the code has it: the directory grows to global depth 2, four
\* buckets of two keys each, and every key is found with its value.
C22_DepthTwo ==
  (pc.phase = "insert" /\ pc.rest = << >>) =>
    /\ ht.global_depth = 2
    /\ Len(ht.dir) = 4
    /\ \A i \in HtSlots :
         /\ ht.buckets[ht.dir[i + 1]].depth = 2
         /\ {e[1] : e \in {ht.buckets[ht.dir[i + 1]].list[n] : n \in 1 .. 2}}
              = {i, i + 4}
    /\ \A k \in 0 .. 7 : HtFind(ht, k) = [ok |-> TRUE, value |-> kv[k]]

C22_Witness ==
  /\ pc.phase = "insert" /\ pc.rest = << >>
  /\ kv[0] = 0 /\ kv[7] = MaxValue
  /\ Cardinality(HtBuckets) = 4

\* C27: every Insert terminates when the keys have pairwise distinct hash
\* values, and after any sequence of Inserts the global depth is at most
\* the smallest d for which no more than bucket_size inserted keys agree
\* on the low d bits of their hash; the directory has at most 2^d slots and
\* one Insert splits at most d times.
C27_DepthBounded ==
  /\ [](/\ ht.global_depth <= SmallestDepth(kv, ht.bucket_size, 0)
        /\ Len(ht.dir) <= 2 ^ SmallestDepth(kv, ht.bucket_size, 0))
  /\ [][\A k \in HtKeys : \A v \in HtValues :
          HtInsertA(k, v) =>
            Len(ht'.buckets) - Len(ht.buckets)
              <= SmallestDepth(kv', ht.bucket_size, 0)]_vars

C27_Witness ==
  /\ pc = ScenOff
  /\ ht.global_depth = 3
  /\ SmallestDepth(kv, ht.bucket_size, 0) = 3
  /\ \A k \in HtKeys : HtPresent(k)

\* =========================================================================
\* Properties of the legacy LRU replacer (SpecLru)
\* =========================================================================
\* C24: LRUReplacer::Victim returns true exactly when it removed a frame
\* (the replacer was non-empty and the frame written is the least recently
\* unpinned one) and false exactly when the replacer was empty.
C24_VictimReturn ==
  LET v == LRUVictim(lru)
  IN /\ v.ret = (unpinned # << >>)
     /\ v.ret => v.frame_id = Head(unpinned)
     /\ ~v.ret => v.r = lru

C29_NoLostKey ==
  \A t \in Threads :
    (/\ th[t].pc = "done"
     /\ th[t].op \in {"Find", "Remove"}
     /\ th[t].before
     /\ ~th[t].undone) => th[t].ret

\* a Find returns with the key although a split emptied the key's bucket
\* after the call began
C29_Witness ==
  \E t \in Threads :
    /\ th[t].pc = "done"
    /\ th[t].op = "Find"
    /\ th[t].before /\ ~th[t].undone /\ th[t].raced
    /\ th[t].ret

\* C30: after any sequence of Inserts GetNumBuckets() is the number of
\* distinct buckets the directory references: 1 for a new table, one more
\* after every bucket split.
C30_NumBuckets == GetNumBuckets(ht) = Cardinality(HtBuckets)

\* C28: no assertion of the buffer pool manager fails in any reachable
\* state, for any sequence of pool operations and any page-id arguments,
\* the sentinel included: no call aborts, every frame on the free list has
\* the sentinel page id, and the frame the page table gives for page p
\* holds page p.
C28_NoAssertFails ==
  /\ ~aborted
  /\ \A i \in 1 .. Len(free_list) :
       pages[free_list[i]].page_id = INVALID_PAGE_ID
  /\ \A p \in DOMAIN page_table :
       page_table[p] # INVALID_FRAME_ID => pages[page_table[p]].page_id = p
====
